---- MODULE Spec2Model ----
(***************************************************************************)
(* A model of the match-three board engine of match-three-js:              *)
(* src/babel/src/board.js (class Board) and the scanning / merging helpers *)
(* it calls, which live in src/unnamed/part_000 (there named               *)
(* hasMatchInSingleRow, hasMatchInPairOfRows, iterchunks, findMatches and  *)
(* combineMatches; board.js calls them hasPotentialMatchInSingleRow,       *)
(* hasPotentialMatchInPairOfRows, iterchunks, findTriples, combineMatches).*)
(*                                                                         *)
(* Coordinates are 0-based [row, col] pairs as in the code.  A JavaScript  *)
(* array is a sequence; a[i] of the code is At(a, i).                      *)
(***************************************************************************)
EXTENDS Integers, Sequences, FiniteSets, TLC

(***************************************************************************)
(* Values a cell can hold.  Tokens are 1..n; the cleared sentinel (U+241A) *)
(* and JavaScript's undefined are two values outside every type list.      *)
(***************************************************************************)
Cleared == 0
Undefined == 0 - 1

Max(a, b) == IF a >= b THEN a ELSE b
Min(a, b) == IF a <= b THEN a ELSE b

\* a[i] of JavaScript: undefined outside 0..length-1
At(a, i) == IF i >= 0 /\ i < Len(a) THEN a[i + 1] ELSE Undefined

\* orbs[row][col] where orbs[row] exists
Cell(orbs, row, col) == At(orbs[row + 1], col)

\* whether orbs[row] is an array (indexing undefined throws a TypeError)
HasRow(orbs, row) == row >= 0 /\ row < Len(orbs)

\* Array.prototype.slice(from, to)
Slice(a, from, to) ==
    LET len == Len(a)
        lo == IF from < 0 THEN Max(len + from, 0) ELSE Min(from, len)
        hi == IF to < 0 THEN Max(len + to, 0) ELSE Min(to, len)
    IN  [i \in 1..Max(hi - lo, 0) |-> a[lo + i]]

\* _.range(0, end): counts down when end is negative
Range(end) ==
    IF end >= 0 THEN [i \in 1..end |-> i - 1]
    ELSE [i \in 1..(0 - end) |-> 0 - (i - 1)]

\* the length of the longest row
MaxLen(orbs) ==
    IF orbs = <<>> THEN 0
    ELSE CHOOSE n \in {Len(orbs[i]) : i \in 1..Len(orbs)} :
             \A i \in 1..Len(orbs) : Len(orbs[i]) <= n

\* _.zip(...orbs): the transpose, short rows padded with undefined
Zip(orbs) ==
    [c \in 1..MaxLen(orbs) |-> [r \in 1..Len(orbs) |-> At(orbs[r], c - 1)]]

\* the elements of a sequence
Elems(a) == {a[i] : i \in 1..Len(a)}

(***************************************************************************)
(* GridScanner: _iterchunks / iterchunks                                   *)
(***************************************************************************)
\* one chunk: its row slices and the position metadata
chunkAt(orbs, cw, ch, hi, wi, isTransposed) ==
    LET rows == Slice(orbs, hi, hi + ch)
        first == <<hi, wi>>
        last == <<hi + ch - 1, wi + cw - 1>>
    IN  [data |-> [i \in 1..Len(rows) |-> Slice(rows[i], wi, wi + cw)],
         first |-> IF isTransposed THEN <<first[2], first[1]>> ELSE first,
         last |-> IF isTransposed THEN <<last[2], last[1]>> ELSE last]

\* _iterchunks(orbs, [cw, ch], _, isTransposed): every window, heightIndex outer
iterchunksOne(orbs, cw, ch, isTransposed) ==
    LET his == Range(Len(orbs) - ch + 1)
        wis == Range(Len(orbs[1]) - cw + 1)
        n == Len(his) * Len(wis)
    IN  [k \in 1..n |->
            chunkAt(orbs, cw, ch, his[((k - 1) \div Len(wis)) + 1],
                    wis[((k - 1) % Len(wis)) + 1], isTransposed)]

\* iterchunks(orbs) with the default chunkLimitRange [4, 2]
iterchunks(orbs) ==
    iterchunksOne(orbs, 4, 2, FALSE) \o iterchunksOne(Zip(orbs), 4, 2, TRUE)

(***************************************************************************)
(* MatchDetector                                                           *)
(***************************************************************************)
\* how often v occurs in row
CountOf(row, v) == Cardinality({i \in 1..Len(row) : row[i] = v})

\* hasMatchInSingleRow: some value occurs more than twice in the row
hasMatchInSingleRow(row) == \E v \in Elems(row) : CountOf(row, v) > 2

\* indexOfAll(list, value) as a set of 0-based indexes (list may be undefined)
indexOfAll(data, k, v) ==
    IF k > Len(data) THEN {}
    ELSE {i - 1 : i \in {j \in 1..Len(data[k]) : data[k][j] = v}}

\* hasMatchInPairOfRows: the indexes of one value over both rows form a run
hasMatchInPairOfRows(data) ==
    \E v \in UNION {Elems(data[i]) : i \in 1..Len(data)} :
        indexOfAll(data, 1, v) \cup indexOfAll(data, 2, v)
            \in {{0, 1, 2}, {1, 2, 3}, {0, 1, 2, 3}}

\* Board.hasPotentialMatch
hasPotentialMatch(orbs) ==
    LET chunks == iterchunks(orbs)
    IN  \/ \E k \in 1..Len(chunks) : \E i \in 1..Len(chunks[k].data) :
              hasMatchInSingleRow(chunks[k].data[i])
        \/ \E k \in 1..Len(chunks) : hasMatchInPairOfRows(chunks[k].data)

\* Board.needsShuffle
needsShuffle(orbs) == ~hasPotentialMatch(orbs)

\* _findMatches: the three coordinates of every window of one value
findMatchesOne(chunks, isTransposed) ==
    LET hit == SelectSeq(chunks, LAMBDA ck :
                   Len(ck.data) > 0 /\ Cardinality(Elems(ck.data[1])) = 1)
    IN  [k \in 1..Len(hit) |->
            LET a == hit[k].first
            IN  IF isTransposed
                THEN <<a, <<a[1] + 1, a[2]>>, <<a[1] + 2, a[2]>>>>
                ELSE <<a, <<a[1], a[2] + 1>>, <<a[1], a[2] + 2>>>>]

\* findMatches (findTriples in board.js): horizontal windows, then vertical
findMatches(orbs) ==
    findMatchesOne(iterchunksOne(orbs, 3, 1, FALSE), FALSE)
        \o findMatchesOne(iterchunksOne(Zip(orbs), 3, 1, TRUE), TRUE)

\* Board.hasMatch
hasMatch(orbs) == findMatches(orbs) # <<>>

(***************************************************************************)
(* MatchMerger: combineMatches                                             *)
(***************************************************************************)
\* the order a SortedSet keeps coordinates in: by row, then by column
CoordLess(a, b) == a[1] < b[1] \/ (a[1] = b[1] /\ a[2] < b[2])

\* SortedSet.toArray()
RECURSIVE SortCoords(_)
SortCoords(S) ==
    IF S = {} THEN <<>>
    ELSE LET m == CHOOSE x \in S : \A y \in S \ {x} : CoordLess(x, y)
         IN  <<m>> \o SortCoords(S \ {m})

\* the _.each over couldMatch: one pass over the groups that were unused when
\* the seed was taken; a group that overlaps the accumulator is unioned into it
\* and spliced out of unused
RECURSIVE mergePass(_, _)
mergePass(current, could) ==
    IF could = <<>> THEN [current |-> current, unused |-> <<>>]
    ELSE LET m == Head(could)
         IN  IF current \cap Elems(m) # {}
             THEN mergePass(current \cup Elems(m), Tail(could))
             ELSE LET r == mergePass(current, Tail(could))
                  IN  [current |-> r.current, unused |-> <<m>> \o r.unused]

\* combineMatches(matches)
RECURSIVE combineMatches(_)
combineMatches(matches) ==
    IF matches = <<>> THEN <<>>
    ELSE LET r == mergePass(Elems(Head(matches)), Tail(matches))
         IN  <<SortCoords(r.current)>> \o combineMatches(r.unused)

(***************************************************************************)
(* MoveValidator: Board.swap                                               *)
(***************************************************************************)
\* a[i] = v of JavaScript: writing past the end lengthens the array
Put(a, i, v) ==
    IF i < Len(a) THEN [a EXCEPT ![i + 1] = v]
    ELSE a \o [j \in 1..(i - Len(a)) |-> Undefined] \o <<v>>

\* orbs[row][col] = v where orbs[row] exists
SetCell(orbs, row, col, v) == [orbs EXCEPT ![row + 1] = Put(@, col, v)]

\* the result of a call: whether it threw, and the grid it leaves
Thrown(orbs) == [err |-> "TypeError", orbs |-> orbs]
Returned(orbs) == [err |-> "none", orbs |-> orbs]

\* a swap that writes the first cell only
swapOneWay(orbs, a, b, playerSwap) ==
    IF ~HasRow(orbs, a[1]) \/ ~HasRow(orbs, b[1]) THEN Thrown(orbs)
    ELSE Returned(SetCell(orbs, a[1], a[2], Cell(orbs, b[1], b[2])))

\* a swap that never undoes the exchange
swapNoUndo(orbs, a, b, playerSwap) ==
    IF ~HasRow(orbs, a[1]) \/ ~HasRow(orbs, b[1]) THEN Thrown(orbs)
    ELSE LET one == SetCell(orbs, a[1], a[2], Cell(orbs, b[1], b[2]))
         IN  Returned(SetCell(one, b[1], b[2], Cell(orbs, a[1], a[2])))

\* Board.swap([[row1, col1], [row2, col2]], playerSwap)
swap(orbs, a, b, playerSwap) ==
    IF ~HasRow(orbs, a[1]) \/ ~HasRow(orbs, b[1]) THEN Thrown(orbs)
    ELSE LET orbsBefore == orbs
             one == SetCell(orbs, a[1], a[2], Cell(orbsBefore, b[1], b[2]))
             two == SetCell(one, b[1], b[2], Cell(orbsBefore, a[1], a[2]))
         IN  IF playerSwap /\ ~hasMatch(two) THEN Returned(orbsBefore)
             ELSE Returned(two)

(***************************************************************************)
(* CascadeResolver: Board.evaluate                                         *)
(***************************************************************************)
\* the inner _.each: every coordinate of one match is set to the sentinel
RECURSIVE markCoords(_, _)
markCoords(orbs, coords) ==
    IF coords = <<>> THEN Returned(orbs)
    ELSE IF ~HasRow(orbs, Head(coords)[1]) THEN Thrown(orbs)
    ELSE markCoords(SetCell(orbs, Head(coords)[1], Head(coords)[2], Cleared),
                    Tail(coords))

\* the outer _.each: log [type, amount] of each match, then mark its coordinates
RECURSIVE markMatches(_, _, _)
markMatches(orbs, matches, matchData) ==
    IF matches = <<>> THEN [err |-> "none", orbs |-> orbs, matchData |-> matchData]
    ELSE LET match == Head(matches)
         IN  IF ~HasRow(orbs, match[1][1])
             THEN [err |-> "TypeError", orbs |-> orbs, matchData |-> matchData]
             ELSE LET logged == Append(matchData,
                                  <<Cell(orbs, match[1][1], match[1][2]), Len(match)>>)
                      marked == markCoords(orbs, match)
                  IN  IF marked.err # "none"
                      THEN [err |-> marked.err, orbs |-> marked.orbs,
                            matchData |-> logged]
                      ELSE markMatches(marked.orbs, Tail(matches), logged)

\* a drop that fills the cleared cell from above and moves nothing else
dropColumnNoShift(orbs, row, col, sampled) ==
    SetCell(orbs, row, col, IF row = 0 THEN sampled ELSE Cell(orbs, row - 1, col))

\* the for-z loop: the column above [row, col] moves down one cell and the top
\* cell takes the sampled orb
dropColumn(orbs, row, col, sampled) ==
    [i \in 1..Len(orbs) |->
        IF i - 1 > row THEN orbs[i]
        ELSE Put(orbs[i], col, IF i = 1 THEN sampled ELSE At(orbs[i - 1], col))]

\* the sweep over _.range(height) x _.range(width), from cell number n on;
\* samples gives the orb _.sample(dropOptions) returns for a hit at each cell
RECURSIVE sweep(_, _, _, _, _)
sweep(orbs, w, h, n, samples) ==
    IF n >= w * h THEN Returned(orbs)
    ELSE LET row == n \div w
             col == n % w
         IN  IF ~HasRow(orbs, row) THEN Thrown(orbs)
             ELSE IF Cell(orbs, row, col) = Cleared
                  THEN sweep(dropColumn(orbs, row, col, samples[<<row, col>>]),
                             w, h, n + 1, samples)
                  ELSE sweep(orbs, w, h, n + 1, samples)

\* the cells of the swept range that hold the sentinel
clearedCells(orbs, w, h) ==
    {rc \in (0..(h - 1)) \X (0..(w - 1)) :
        HasRow(orbs, rc[1]) /\ Cell(orbs, rc[1], rc[2]) = Cleared}

\* the second half of Board.evaluate: the sweep over the marked grid, unless
\* marking threw
refill(marked, w, h, samples) ==
    IF marked.err # "none" THEN marked
    ELSE LET swept == sweep(marked.orbs, w, h, 0, samples)
         IN  [err |-> swept.err, orbs |-> swept.orbs,
              matchData |-> marked.matchData]

\* Board.evaluate(matches, dropOptions) with the sampled refills given
evaluate(orbs, w, h, matches, samples) ==
    refill(markMatches(orbs, matches, <<>>), w, h, samples)

(***************************************************************************)
(* DeadlockRepairer: Board._unmatch and one pass of Board.unmatch's loop   *)
(***************************************************************************)
\* the neighbour cell in each direction
Neighbour(row, col, dir) ==
    CASE dir = "up" -> <<row - 1, col>>
      [] dir = "down" -> <<row + 1, col>>
      [] dir = "left" -> <<row, col - 1>>
      [] dir = "right" -> <<row, col + 1>>

\* the condition under which _unmatch swaps with the neighbour in direction dir
canSwapWith(orbs, row, col, dir) ==
    LET nb == Neighbour(row, col, dir)
        thisOrb == Cell(orbs, row, col)
    IN  IF dir \in {"up", "down"}
        THEN HasRow(orbs, nb[1]) /\ Cell(orbs, nb[1], nb[2]) # thisOrb
        ELSE Cell(orbs, nb[1], nb[2]) # Undefined
                 /\ Cell(orbs, nb[1], nb[2]) # thisOrb

\* Board._unmatch(row, col, match, skipToRandom): every result the random
\* direction order and the random fallback coordinates can give
unmatchOne(orbs, w, h, row, col, skipToRandom) ==
    IF ~HasRow(orbs, row) THEN {Thrown(orbs)}
    ELSE LET thisOrb == Cell(orbs, row, col)
             dirs == IF skipToRandom THEN {}
                     ELSE {d \in {"up", "down", "left", "right"} :
                              canSwapWith(orbs, row, col, d)}
         IN  IF dirs # {}
             THEN {swap(orbs, <<row, col>>, Neighbour(row, col, d), FALSE) : d \in dirs}
             ELSE {Thrown(orbs) : rc \in {x \in (0..(h - 1)) \X (0..(w - 1)) :
                                             ~HasRow(orbs, x[1])}}
                  \cup {swap(orbs, <<row, col>>, rc, FALSE) :
                           rc \in {x \in (0..(h - 1)) \X (0..(w - 1)) :
                                      HasRow(orbs, x[1])
                                      /\ Cell(orbs, x[1], x[2]) # thisOrb}}

\* whether all coordinates of a match share component i
sameComponent(match, i) == Cardinality({match[k][i] : k \in 1..Len(match)}) = 1

\* the coordinates of a match that lie on a row and on a column of the match
\* which each hold more than two of its coordinates
intersections(match) ==
    LET n(i, v) == Cardinality({k \in 1..Len(match) : match[k][i] = v})
    IN  {match[k] : k \in {j \in 1..Len(match) :
                              n(1, match[j][1]) > 2 /\ n(2, match[j][2]) > 2}}

\* a pass that never sets the side-by-side flag for a simple match
unmatchPassNoEscape(orbs, w, h) ==
    LET match == combineMatches(findMatches(orbs))[1]
    IN  IF sameComponent(match, 1) \/ sameComponent(match, 2)
        THEN LET mid == match[(Len(match) \div 2) + 1]
             IN  unmatchOne(orbs, w, h, mid[1], mid[2], FALSE)
        ELSE IF intersections(match) = {} THEN {Thrown(orbs)}
        ELSE UNION {unmatchOne(orbs, w, h, x[1], x[2], FALSE) : x \in intersections(match)}

\* one pass of the body of unmatch's while loop
unmatchPass(orbs, w, h) ==
    LET match == combineMatches(findMatches(orbs))[1]
    IN  IF sameComponent(match, 1) \/ sameComponent(match, 2)
        THEN LET mid == match[(Len(match) \div 2) + 1]
                 rows == IF sameComponent(match, 1)
                         THEN {mid[1]} ELSE {mid[1] - 1, mid[1] + 1, mid[1]}
                 midNeighbors ==
                     IF sameComponent(match, 1)
                     THEN {Cell(orbs, mid[1], mid[2] - 1), Cell(orbs, mid[1], mid[2] + 1)}
                     ELSE {Cell(orbs, mid[1] - 1, mid[2]), Cell(orbs, mid[1] + 1, mid[2])}
             IN  IF \E r \in rows : ~HasRow(orbs, r) THEN {Thrown(orbs)}
                 ELSE unmatchOne(orbs, w, h, mid[1], mid[2],
                                 Cell(orbs, mid[1], mid[2]) \in midNeighbors)
        ELSE IF intersections(match) = {} THEN {Thrown(orbs)}
        ELSE UNION {unmatchOne(orbs, w, h, x[1], x[2], FALSE) : x \in intersections(match)}

(***************************************************************************)
(* The Board as a state machine.                                           *)
(***************************************************************************)
\* the [width, height] pairs and the type lists a Board is constructed with
Sizes == {<<2, 4>>, <<3, 3>>}
MaxTypes == 2
TypeLists == {1..n : n \in 1..MaxTypes}
\* how many calls a caller makes on a constructed Board
MaxCalls == 2

VARIABLES
    width, height, types,  \* this.width, this.height, this.types
    orbs,                  \* this.orbs
    pc,                    \* "start": no Board yet; "shuffle", "unmatch": inside
                           \* shuffle() / unmatch(); "returned": a call has just
                           \* ended; "idle": between calls; "failed": the
                           \* constructor threw
    k,                     \* the row _.map has reached in shuffle()
    op,                    \* the outermost call running or just ended
    outcome,               \* "running", "returned" or the error thrown
    args,                  \* the arguments of the swap / evaluate just ended
    before,                \* this.orbs when the caller's call was made
    matchData,             \* what that evaluate returned
    calls                  \* the calls made on the Board since its construction

vars == <<width, height, types, orbs, pc, k, op, outcome, args, before, matchData,
          calls>>

Init ==
    /\ pc = "start" /\ width = 0 /\ height = 0 /\ types = {}
    /\ orbs = <<>> /\ k = 0 /\ op = "none" /\ outcome = "none"
    /\ args = <<>> /\ before = <<>> /\ matchData = <<>> /\ calls = 0

\* new Board(w, h, ts): the rows are sampled and zipped, then shuffle() is
\* called if the sample has a match or no potential match
Construct(w, h, ts, sampled) ==
    /\ pc = "start"
    /\ width' = w /\ height' = h /\ types' = ts
    /\ orbs' = Zip(sampled)
    /\ op' = "constructor"
    /\ IF hasMatch(orbs') \/ needsShuffle(orbs')
       THEN pc' = "shuffle" /\ outcome' = "running"
       ELSE pc' = "returned" /\ outcome' = "returned"
    /\ UNCHANGED <<k, args, before, matchData, calls>>

\* the rows that _.shuffle(row) can return
shuffled(row) ==
    {p \in [1..Len(row) -> Elems(row)] :
        \A v \in Elems(row) : CountOf(p, v) = CountOf(row, v)}

\* shuffle(): _.map(this.orbs, row => _.shuffle(row)), one row at a time
ShuffleRow ==
    /\ pc = "shuffle" /\ k < Len(orbs)
    /\ \E p \in shuffled(orbs[k + 1]) : orbs' = [orbs EXCEPT ![k + 1] = p]
    /\ k' = k + 1
    /\ UNCHANGED <<width, height, types, pc, op, outcome, args, before, matchData,
                   calls>>

\* shuffle(): the rows are permuted, this.unmatch() is entered
ShuffleDone ==
    /\ pc = "shuffle" /\ k = Len(orbs)
    /\ pc' = "unmatch" /\ k' = 0
    /\ UNCHANGED <<width, height, types, orbs, op, outcome, args, before, matchData,
                   calls>>

\* where a call that throws ends: out of the constructor no Board is left
afterThrow == IF op = "constructor" THEN "failed" ELSE "returned"

\* unmatch(): one pass of the while loop
UnmatchPass ==
    /\ pc = "unmatch" /\ hasMatch(orbs)
    /\ \E r \in unmatchPass(orbs, width, height) :
          /\ orbs' = r.orbs
          /\ pc' = IF r.err = "none" THEN pc ELSE afterThrow
          /\ outcome' = IF r.err = "none" THEN outcome ELSE r.err
    /\ UNCHANGED <<width, height, types, k, op, args, before, matchData, calls>>

\* a shuffle() that returns after unmatch() without asking needsShuffle()
UnmatchDoneNoRecheck ==
    /\ pc = "unmatch" /\ ~hasMatch(orbs)
    /\ pc' = "returned" /\ outcome' = "returned"
    /\ UNCHANGED <<width, height, types, orbs, k, op, args, before, matchData, calls>>

\* unmatch(): the loop ends; inside shuffle(), needsShuffle() decides between
\* returning and shuffling again
UnmatchDone ==
    /\ pc = "unmatch" /\ ~hasMatch(orbs)
    /\ IF op # "unmatch" /\ needsShuffle(orbs)
       THEN pc' = "shuffle" /\ UNCHANGED outcome
       ELSE pc' = "returned" /\ outcome' = "returned"
    /\ UNCHANGED <<width, height, types, orbs, k, op, args, before, matchData, calls>>

\* the caller has the result of the call and the Board is ready for the next
Resume ==
    /\ pc = "returned"
    /\ pc' = "idle" /\ op' = "none" /\ outcome' = "none"
    /\ args' = <<>> /\ before' = <<>> /\ matchData' = <<>>
    /\ UNCHANGED <<width, height, types, orbs, k, calls>>

\* a caller invokes board.shuffle()
CallShuffle ==
    /\ pc = "idle" /\ calls < MaxCalls
    /\ pc' = "shuffle" /\ k' = 0 /\ op' = "shuffle" /\ outcome' = "running"
    /\ before' = orbs /\ calls' = calls + 1
    /\ UNCHANGED <<width, height, types, orbs, args, matchData>>

\* a caller invokes board.unmatch()
CallUnmatch ==
    /\ pc = "idle" /\ calls < MaxCalls
    /\ pc' = "unmatch" /\ op' = "unmatch" /\ outcome' = "running"
    /\ before' = orbs /\ calls' = calls + 1
    /\ UNCHANGED <<width, height, types, orbs, k, args, matchData>>

\* the cells of the grid, and the pairs of a cell and the cell to its right or
\* below it, which past the last column or row is out of range
Cells == (0..(Len(orbs) - 1)) \X (0..(MaxLen(orbs) - 1))
Adjacent ==
    {<<a, <<a[1], a[2] + 1>>>> : a \in Cells}
        \cup {<<a, <<a[1] + 1, a[2]>>>> : a \in Cells}
InRange(a) == a \in Cells

\* a caller invokes board.swap([a, b], playerSwap)
Swap(a, b, playerSwap) ==
    /\ pc = "idle"
    /\ LET r == swap(orbs, a, b, playerSwap)
       IN  orbs' = r.orbs /\ outcome' = IF r.err = "none" THEN "returned" ELSE r.err
    /\ pc' = "returned" /\ op' = "swap"
    /\ args' = <<a, b, playerSwap>> /\ before' = orbs
    /\ calls' = calls + 1
    /\ UNCHANGED <<width, height, types, k, matchData>>

\* the match lists a caller passes to evaluate: none, or the merged matches
MatchArgs == {"omitted", "combined"}

matchesOf(arg, g) == IF arg = "combined" THEN combineMatches(findMatches(g)) ELSE <<>>

\* the refills explored for one evaluate: every sample when dropOptions holds
\* one type or at most MaxRefill cells are cleared
MaxRefill == 5

\* a caller invokes board.evaluate(matches, dropOptions)
Evaluate(arg, dropOptions) ==
    /\ pc = "idle"
    /\ LET marked == markMatches(orbs, matchesOf(arg, orbs), <<>>)
           cleared == clearedCells(marked.orbs, width, height)
       IN  /\ Cardinality(dropOptions) = 1 \/ Cardinality(cleared) <= MaxRefill
           /\ \E samples \in [cleared -> dropOptions] :
                 LET r == refill(marked, width, height, samples)
                 IN  /\ orbs' = r.orbs
                     /\ outcome' = IF r.err = "none" THEN "returned" ELSE r.err
                     /\ matchData' = IF r.err = "none" THEN r.matchData ELSE <<>>
    /\ pc' = "returned" /\ op' = "evaluate"
    /\ args' = <<arg, dropOptions>> /\ before' = orbs
    /\ calls' = calls + 1
    /\ UNCHANGED <<width, height, types, k>>

Idle == pc = "idle" /\ calls < MaxCalls

Next ==
    \/ pc = "start" /\ \E sz \in Sizes, ts \in TypeLists :
          \E sampled \in [1..sz[2] -> [1..sz[1] -> ts]] :
             Construct(sz[1], sz[2], ts, sampled)
    \/ ShuffleRow
    \/ ShuffleDone
    \/ UnmatchPass
    \/ UnmatchDone
    \/ Resume
    \/ CallShuffle
    \/ CallUnmatch
    \/ Idle /\ \E ab \in Adjacent, playerSwap \in BOOLEAN : Swap(ab[1], ab[2], playerSwap)
    \/ Idle /\ \E arg \in MatchArgs, dropOptions \in (SUBSET types) \ {{}} :
                  Evaluate(arg, dropOptions)

Spec == Init /\ [][Next]_vars

(***************************************************************************)
(* The game on a square board: boards the constructor returns without a    *)
(* repair, the player's swaps and the evaluate calls that follow them.     *)
(***************************************************************************)
GameSizes == {<<4, 4>>}
GameTypes == 1..2
\* the rows sampleRow() returns in the games explored
GameRows == {<<2, 1, 2, 2>>, <<1, 2, 1, 2>>, <<1, 2, 1, 1>>, <<2, 1, 2, 1>>}
\* a game is at most GameMoves swaps of the player followed by evaluate calls,
\* GameCalls calls in all
GameMoves == 1
GameCalls == 3

\* new Board(w, h, ts) where the sample needs no shuffle()
ConstructPlayable(w, h, ts, sampled) ==
    Construct(w, h, ts, sampled) /\ pc' = "returned"

GameIdle == pc = "idle" /\ calls < GameCalls

GameNext ==
    \/ pc = "start" /\ \E sz \in GameSizes :
          \E sampled \in [1..sz[2] -> GameRows] :
             ConstructPlayable(sz[1], sz[2], GameTypes, sampled)
    \/ Resume
    \/ GameIdle /\ calls < GameMoves
           /\ \E ab \in {x \in Adjacent : InRange(x[2])} : Swap(ab[1], ab[2], TRUE)
    \/ GameIdle /\ \E arg \in MatchArgs, dropOptions \in (SUBSET types) \ {{}} :
                      Evaluate(arg, dropOptions)

GameSpec == Init /\ [][GameNext]_vars

(***************************************************************************)
(* Properties.                                                             *)
(***************************************************************************)
\* a grid of tokens: every row as long as the first, every cell a real token
IsGrid(g) ==
    /\ g # <<>>
    /\ \A r \in 1..Len(g) : Len(g[r]) = Len(g[1]) /\ Elems(g[r]) \subseteq types

\* a horizontal or vertical run of three equal tokens, read off the cells
HasRun(g) ==
    \/ \E r \in 1..Len(g), c \in 1..(Len(g[1]) - 2) :
          g[r][c] = g[r][c + 1] /\ g[r][c] = g[r][c + 2]
    \/ \E r \in 1..(Len(g) - 2), c \in 1..Len(g[1]) :
          g[r][c] = g[r + 1][c] /\ g[r][c] = g[r + 2][c]

\* the grid with the tokens at two in-range coordinates exchanged
Exchanged(g, a, b) ==
    [r \in 1..Len(g) |-> [c \in 1..Len(g[r]) |->
        IF <<r - 1, c - 1>> = a THEN g[b[1] + 1][b[2] + 1]
        ELSE IF <<r - 1, c - 1>> = b THEN g[a[1] + 1][a[2] + 1]
        ELSE g[r][c]]]

InGrid(g, a) == a[1] \in 0..(Len(g) - 1) /\ a[2] \in 0..(Len(g[1]) - 1)

\* C1: when the constructor or shuffle() returns, the grid has no match and
\* has a potential match
C1_ReturnedBoardIsPlayable ==
    (pc = "returned" /\ outcome = "returned" /\ op \in {"constructor", "shuffle"})
        => (~hasMatch(orbs) /\ hasPotentialMatch(orbs))

\* a shuffle() call that rearranged the grid has returned
C1_ShuffleReturned ==
    pc = "returned" /\ outcome = "returned" /\ op = "shuffle" /\ orbs # before

\* C2: a player swap of two in-range coordinates of a grid of tokens, whose
\* exchanged grid has no run of three, leaves every cell as it was
C2_UnmatchedSwapReverts ==
    (/\ pc = "returned" /\ op = "swap" /\ args[3]
     /\ IsGrid(before) /\ InGrid(before, args[1]) /\ InGrid(before, args[2])
     /\ ~HasRun(Exchanged(before, args[1], args[2])))
        => (outcome = "returned" /\ orbs = before)

\* a player swap of two different tokens that made no run has returned
C2_SwapReverted ==
    /\ pc = "returned" /\ op = "swap" /\ args[3] /\ outcome = "returned"
    /\ IsGrid(before) /\ InGrid(before, args[1]) /\ InGrid(before, args[2])
    /\ Exchanged(before, args[1], args[2]) # before
    /\ ~HasRun(Exchanged(before, args[1], args[2]))

\* C3: no two groups that combineMatches returns for the matches of a grid
\* share a coordinate
C3_MergedGroupsDisjoint ==
    IsGrid(orbs) =>
        LET groups == combineMatches(findMatches(orbs))
        IN  \A i, j \in 1..Len(groups) :
               i # j => Elems(groups[i]) \cap Elems(groups[j]) = {}

\* the coordinates of the groups evaluate was called with
ClearedBy(arg, g) == UNION {Elems(m) : m \in Elems(matchesOf(arg, g))}

\* the rows of column col among the coordinates cleared
Gone(cleared, g, col) == {r \in 0..(Len(g) - 1) : <<r, col>> \in cleared}

\* the tokens of column col that were not cleared, top to bottom
Kept(cleared, g, col) ==
    LET rows == SelectSeq([r \in 1..Len(g) |-> r - 1],
                          LAMBDA r : <<r, col>> \notin cleared)
    IN  [i \in 1..Len(rows) |-> g[rows[i] + 1][col + 1]]

\* an evaluate call on a height x width grid of tokens has returned
EvaluateReturned ==
    /\ pc = "returned" /\ op = "evaluate" /\ outcome = "returned"
    /\ IsGrid(before) /\ Len(before) = height /\ Len(before[1]) = width

\* C4: evaluate(combineMatches(findMatches(grid))) returns one event per group,
\* in order, each the token the group's cells held at the call and the size of
\* the group; no event holds the cleared sentinel
C4_OneEventPerGroup ==
    (EvaluateReturned /\ args[1] = "combined") =>
        LET groups == combineMatches(findMatches(before))
        IN  /\ Len(matchData) = Len(groups)
            /\ \A i \in 1..Len(groups) :
                  /\ matchData[i][1] # Cleared
                  /\ matchData[i] = <<Cell(before, groups[i][1][1], groups[i][1][2]),
                                      Len(groups[i])>>

\* C5: after evaluate returns no cell is cleared, and in each column the
\* tokens not cleared keep their order at the bottom under as many refill
\* tokens of dropOptions as cells were cleared
C5_GravityAndRefill ==
    EvaluateReturned =>
        LET cleared == ClearedBy(args[1], before)
        IN  /\ IsGrid(orbs) /\ Len(orbs) = height /\ Len(orbs[1]) = width
            /\ \A col \in 0..(width - 1) :
                  LET n == Cardinality(Gone(cleared, before, col))
                      kept == Kept(cleared, before, col)
                  IN  /\ \A r \in 1..n : orbs[r][col + 1] \in args[2]
                      /\ \A i \in 1..(height - n) : orbs[n + i][col + 1] = kept[i]

\* an evaluate has returned that cleared two cells of a column with a token
\* between them that stayed, and two stacked cells of a column
C5_SeparatedAndStacked ==
    /\ EvaluateReturned
    /\ LET cleared == ClearedBy(args[1], before)
       IN  /\ \E col \in 0..(width - 1) : \E r1, r2, r3 \in 0..(height - 1) :
                 /\ r1 < r2 /\ r2 < r3
                 /\ {<<r1, col>>, <<r3, col>>} \subseteq cleared
                 /\ <<r2, col>> \notin cleared
           /\ \E col \in 0..(width - 1) : \E r \in 0..(height - 2) :
                 {<<r, col>>, <<r + 1, col>>} \subseteq cleared

\* C6: evaluate without a match argument on a grid with a match returns one
\* event per merged group of the grid, as evaluate with those groups does
C6_OmittedArgumentRederives ==
    (EvaluateReturned /\ args[1] = "omitted" /\ hasMatch(before)) =>
        Len(matchData) = Len(combineMatches(findMatches(before)))

\* some exchange of two orthogonally adjacent cells makes a run of three
HasLatentSwap(g) ==
    \E r \in 0..(Len(g) - 1), c \in 0..(Len(g[1]) - 1) :
        \/ c + 1 < Len(g[1]) /\ HasRun(Exchanged(g, <<r, c>>, <<r, c + 1>>))
        \/ r + 1 < Len(g) /\ HasRun(Exchanged(g, <<r, c>>, <<r + 1, c>>))

\* C7: on a match-free grid of a board of width and height at least 3,
\* hasPotentialMatch() is true exactly if some exchange of two adjacent cells
\* makes a run of three, and needsShuffle() is its negation
C7_PotentialMatchIffLatentSwap ==
    (IsGrid(orbs) /\ width >= 3 /\ height >= 3 /\ ~HasRun(orbs)) =>
        /\ hasPotentialMatch(orbs) <=> HasLatentSwap(orbs)
        /\ needsShuffle(orbs) <=> ~HasLatentSwap(orbs)

\* the token types on the grid
TokensOn(g) == UNION {Elems(g[r]) : r \in 1..Len(g)}

\* how often token v occurs on the grid
CountOn(g, v) == Cardinality({rc \in (1..Len(g)) \X (1..Len(g[1])) : g[rc[1]][rc[2]] = v})

\* some arrangement of the tokens of the grid has no run of three
HasMatchFreeArrangement(g) ==
    \E h \in [1..Len(g) -> [1..Len(g[1]) -> TokensOn(g)]] :
        /\ \A v \in TokensOn(g) : CountOn(h, v) = CountOn(g, v)
        /\ ~HasRun(h)

\* C8: from every height x width grid with at least two token types unmatch()
\* ends with no match left; its swaps only rearrange the tokens, so a
\* match-free arrangement of the tokens of the grid exists
C8_MatchFreeGridReachable ==
    (/\ pc = "unmatch" /\ IsGrid(orbs) /\ Len(orbs) = height /\ Len(orbs[1]) = width
     /\ Cardinality(TokensOn(orbs)) >= 2)
        => HasMatchFreeArrangement(orbs)

\* C9: a swap with a coordinate outside the grid fails with OutOfBoundsError
\* and leaves the grid as it was
C9_OutOfRangeSwapRejected ==
    (/\ pc = "returned" /\ op = "swap" /\ IsGrid(before)
     /\ ~(InGrid(before, args[1]) /\ InGrid(before, args[2])))
        => (outcome = "OutOfBoundsError" /\ orbs = before)

\* C10: constructing a Board with width or height below 3 or fewer than two
\* types fails with ConfigurationError: no board, no repair loop
C10_BadConfigurationRejected ==
    (pc # "start" /\ (width < 3 \/ height < 3 \/ Cardinality(types) < 2))
        => (pc = "failed" /\ outcome = "ConfigurationError")

\* C11: for every width and height, equal or not, the grid of a constructed
\* Board has exactly height rows of exactly width cells, so the sweep of
\* evaluate and the fallback of _unmatch address existing cells only
C11_GridIsHeightByWidth ==
    pc # "start" =>
        /\ Len(orbs) = height
        /\ \A r \in 1..Len(orbs) : Len(orbs[r]) = width

\* how often token v occurs in the rows of the grid, whatever their lengths
TokenCount(g, v) ==
    Cardinality(UNION {{<<r, c>> : c \in {i \in 1..Len(g[r]) : g[r][i] = v}} :
                          r \in 1..Len(g)})

\* C12: every step of swap, _unmatch, unmatch and shuffle leaves the number of
\* occurrences of each token type as it was; only construction and evaluate
\* change the counts
C12_TokenCountsKept ==
    [][(pc # "start" /\ ~(pc = "idle" /\ op' = "evaluate"))
          => \A v \in types : TokenCount(orbs', v) = TokenCount(orbs, v)]_vars

\* an unmatch() call that rearranged a grid of tokens has returned
C12_UnmatchRearranged ==
    /\ pc = "returned" /\ op = "unmatch" /\ outcome = "returned"
    /\ IsGrid(before) /\ orbs # before

\* the group unmatch() selects, and whether it lies in one row or one column
Selected(g) == combineMatches(findMatches(g))[1]
InOneRow(match) == \A i \in 1..Len(match) : match[i][1] = match[1][1]
InOneColumn(match) == \A i \in 1..Len(match) : match[i][2] = match[1][2]

\* the median coordinate of a group and its two neighbours along the group
Median(match) == match[(Len(match) \div 2) + 1]
InLineNeighbours(match) ==
    LET mid == Median(match)
    IN  IF InOneRow(match)
        THEN {<<mid[1], mid[2] - 1>>, <<mid[1], mid[2] + 1>>}
        ELSE {<<mid[1] - 1, mid[2]>>, <<mid[1] + 1, mid[2]>>}

\* what the random fallback can do for the cell mid: throw on a row index past
\* the last row, or exchange mid with a cell that holds another token
FallbackResults(g, w, h, mid) ==
    LET picks == (0..(h - 1)) \X (0..(w - 1))
        missing == {rc \in picks : rc[1] >= Len(g)}
    IN  (IF missing # {} THEN {[err |-> "TypeError", orbs |-> g]} ELSE {})
        \cup {[err |-> "none", orbs |-> Exchanged(g, mid, rc)] :
                 rc \in {x \in picks \ missing :
                            g[x[1] + 1][x[2] + 1] # g[mid[1] + 1][mid[2] + 1]}}

\* unmatch() is about to repair a simple match on a grid of tokens
RepairsSimpleMatch ==
    /\ pc = "unmatch" /\ IsGrid(orbs) /\ hasMatch(orbs)
    /\ InOneRow(Selected(orbs)) \/ InOneColumn(Selected(orbs))

====
